---- MODULE Spec2Model ----
(***************************************************************************)
(* Interview task-progression engine of zongyu0523/interview-agent.        *)
(*                                                                         *)
(* One interview session (one LangGraph thread) is modelled.  Its          *)
(* TurnState lives in the checkpoint store; every call of invoke_graph     *)
(* (api_chat.py) reads it, runs the graph START -> router -> task node ->  *)
(* respond_node -> END (interview.py), and the graph, compiled with a      *)
(* checkpointer, writes a checkpoint after the input has been applied and  *)
(* after every node.                                                       *)
(*                                                                         *)
(* Strings that the code concatenates (the task instruction) are modelled  *)
(* as sequences of tokens, concatenation as \o.  Planned topic names are   *)
(* segment titles: non-empty and different from the sentinel "end".        *)
(***************************************************************************)
EXTENDS Integers, Sequences, FiniteSets, TLC

\* ------------------------------------------------------------------ bounds
MaxTurns == 4          \* invoke_graph calls per behaviour of Spec
MaxFails == 2          \* failing node executions per behaviour of Spec
MaxPlan == 2           \* longest plan the planner returns
MaxLongTurns == 22     \* invoke_graph calls per behaviour of SpecLong
MaxTdTurns == 2        \* invoke_graph calls per behaviour with teardown
MaxRaceTurns == 3      \* invoke_graph calls per behaviour with overlapping calls
MaxProcTurns == 3      \* invoke_graph calls per behaviour with two processes
MaxReads == 2          \* get_chat_history requests per behaviour
MaxFollowUps == 3      \* current_topic_count up to which INCOMPLETE is returned
MaxTeardowns == 2      \* delete_session requests per behaviour
MaxPaceRound == 22     \* largest total_round handed to the pacing policy
MaxPaceQueue == 10     \* longest task_queue handed to the pacing policy

\* ------------------------------------------------------- program constants
DefaultMaxRound == 20
PacingMargin == 3

EndTopic == "end"
EndInstruction == <<"ending this interview">>
ClosingText == "Thank you so much for your time today. We will be in touch soon!"
StartText == "START"

\* --------------------------------------------------------------- inputs
Callers == {1, 2}
Topics == {"intro", "salary"}
UserMsgs == {"hello"}
AiTexts == {"question"}
Decisions == {"COMPLETE", "INCOMPLETE", "PASS"}
NoText == "null"
FollowUps == {"dig deeper", NoText}

InterviewTask(t) == [topic |-> t, instruction |-> <<"ask", t>>]
Tasks == {InterviewTask(t) : t \in Topics}

RECURSIVE SeqsUpTo(_, _)
SeqsUpTo(S, n) ==
    IF n = 0 THEN {<<>>}
    ELSE LET shorter == SeqsUpTo(S, n - 1)
         IN  shorter \cup {Append(q, x) : q \in shorter, x \in S}

InterviewPlan == SeqsUpTo(Tasks, MaxPlan)
LongPlans == {<<InterviewTask("intro")>>,
              <<InterviewTask("intro"), InterviewTask("salary")>>}

HumanMessage(m) == [type |-> "human", content |-> m]
AIMessage(t) == [type |-> "ai", content |-> t]

\* ------------------------------------------------------------ TurnState
InterviewState(msgs) ==
    [messages |-> msgs,
     total_round |-> 0,
     max_round |-> DefaultMaxRound,
     task_queue |-> <<>>,
     current_task_topic |-> "",
     current_task_instruction |-> <<>>,
     current_topic_count |-> 0,
     completed_topics |-> <<>>]

\* placeholder held by the variables while no TurnState exists
NoValues == [InterviewState(<<>>) EXCEPT !.max_round = 0]

VARIABLES
    stored,      \* the checkpoint store holds a checkpoint of the thread
    store,       \* channel values of the thread's latest checkpoint
    pc,          \* position of each invoke_graph call
    first,       \* is_first_call of the call
    msg,         \* message of the call
    preStored,   \* a checkpoint existed when ainvoke loaded the thread
    pre,         \* values ainvoke loaded, before the input was applied
    st,          \* channel values of the running graph
    route,       \* node chosen by task_router
    decision,    \* decision of the judgment of this call ("" if none)
    pacing,      \* pacing directive handed to the judgment ("" if none)
    reply,       \* "closing" / "substantive" / "" (no reply yet)
    turns,       \* invoke_graph calls started
    fails,       \* node executions that failed
    saver,       \* checkpointer chosen by init_checkpointer
    database_url,\* DATABASE_URL is set
    stored2,     \* the second process's MemorySaver holds the thread
    store2,      \* channel values held by the second process's MemorySaver
    session,     \* the session row exists in the sessions table
    cache,       \* _info_cache of each process holds the session's entry
    td,          \* position of the delete_session request
    tds,         \* delete_session requests started
    history      \* results of the get_chat_history requests so far

\* deployment and teardown state, untouched by the graph
env == <<saver, database_url, session, td, tds, history>>

vars == <<stored, store, pc, first, msg, preStored, pre, st, route,
          decision, pacing, reply, turns, fails, saver, database_url,
          stored2, store2, session, cache, td, tds, history>>

\* request c is served by process c; with the in-memory saver the second
\* process reads and writes its own MemorySaver
OwnSaver(c) == saver = "memory" /\ c = 2
HasState(c) == IF OwnSaver(c) THEN stored2 ELSE stored
Values(c) == IF OwnSaver(c) THEN store2 ELSE store

Init ==
    /\ stored = FALSE
    /\ store = NoValues
    /\ pc = [c \in Callers |-> "idle"]
    /\ first = [c \in Callers |-> FALSE]
    /\ msg = [c \in Callers |-> ""]
    /\ preStored = [c \in Callers |-> FALSE]
    /\ pre = [c \in Callers |-> NoValues]
    /\ st = [c \in Callers |-> NoValues]
    /\ route = [c \in Callers |-> ""]
    /\ decision = [c \in Callers |-> ""]
    /\ pacing = [c \in Callers |-> ""]
    /\ reply = [c \in Callers |-> ""]
    /\ turns = 0
    /\ fails = 0
    /\ saver = "postgres"
    /\ database_url = TRUE
    /\ stored2 = FALSE
    /\ store2 = NoValues
    /\ session = TRUE
    /\ cache = [c \in Callers |-> FALSE]
    /\ td = "idle"
    /\ tds = 0
    /\ history = <<>>

\* --------------------------------------------------------- pure functions
task_router(s) ==
    IF s.total_round = 0 THEN "init_task" ELSE "update_task"

\* a plausible variant: planning sizes the round budget to the plan
init_task_node_budgets(s, plan) ==
    [s EXCEPT !.task_queue = plan,
              !.current_task_topic =
                  IF plan # <<>> THEN plan[1].topic ELSE "",
              !.current_task_instruction =
                  IF plan # <<>> THEN plan[1].instruction ELSE <<>>,
              !.current_topic_count = 0,
              !.max_round = Len(plan)]

init_task_node(s, plan) ==
    [s EXCEPT !.task_queue = plan,
              !.current_task_topic =
                  IF plan # <<>> THEN plan[1].topic ELSE "",
              !.current_task_instruction =
                  IF plan # <<>> THEN plan[1].instruction ELSE <<>>,
              !.current_topic_count = 0]

\* a plausible slip: the margin is tested with < instead of <=
PacingStrict(s) ==
    LET remaining_rounds == s.max_round - s.total_round
    IN  IF remaining_rounds < PacingMargin THEN "time pressure"
        ELSE IF Len(s.task_queue) - 1 > remaining_rounds
             THEN "backlog pressure"
             ELSE "standard pacing"

Pacing(s) ==
    LET remaining_rounds == s.max_round - s.total_round
    IN  IF remaining_rounds <= PacingMargin THEN "time pressure"
        ELSE IF Len(s.task_queue) - 1 > remaining_rounds
             THEN "backlog pressure"
             ELSE "standard pacing"

\* prepare_update_prompt reads messages[-1] and messages[-2]
PromptReady(s) == Len(s.messages) >= 2

\* str + '\n' + None raises TypeError
Concatenable(d, f) == d # "INCOMPLETE" \/ f # NoText

\* a plausible variant: a follow-up puts the head of the queue back in play
FollowUpReopens(s, f) ==
    [s EXCEPT !.current_task_instruction = @ \o <<"\n", f>>,
              !.current_topic_count = @ + 1,
              !.current_task_topic =
                  IF s.task_queue # <<>> THEN s.task_queue[1].topic ELSE @]

\* a plausible slip: the follow-up replaces the instruction
FollowUpReplaces(s, f) ==
    [s EXCEPT !.current_task_instruction = <<f>>,
              !.current_topic_count = @ + 1]

\* decision INCOMPLETE
FollowUp(s, f) ==
    [s EXCEPT !.current_task_instruction = @ \o <<"\n", f>>,
              !.current_topic_count = @ + 1]

\* a plausible variant: the terminal transition drains the queue
EndInterviewDrains(s) ==
    [s EXCEPT !.current_task_topic = EndTopic,
              !.current_task_instruction = EndInstruction,
              !.current_topic_count = 1,
              !.task_queue = <<>>,
              !.completed_topics =
                  IF s.task_queue # <<>>
                  THEN Append(@, Head(s.task_queue).topic) ELSE @]

\* a plausible slip: the end marker is written but the topic is kept
EndInterviewKeepsTopic(s) ==
    [s EXCEPT !.current_task_instruction = EndInstruction,
              !.current_topic_count = 1]

\* decision COMPLETE or PASS on the last task
EndInterview(s) ==
    [s EXCEPT !.current_task_topic = EndTopic,
              !.current_task_instruction = EndInstruction,
              !.current_topic_count = 1]

\* a plausible slip: the popped topic is not recorded as completed
NextTopicForgets(s) ==
    LET queue == Tail(s.task_queue)
    IN  [s EXCEPT !.current_task_topic = queue[1].topic,
                  !.current_task_instruction = queue[1].instruction,
                  !.current_topic_count = 1,
                  !.task_queue = queue]

\* a plausible slip: topic and instruction are read before the pop
NextTopicStale(s) ==
    LET queue == Tail(s.task_queue)
    IN  [s EXCEPT !.current_task_topic = s.task_queue[1].topic,
                  !.current_task_instruction = s.task_queue[1].instruction,
                  !.current_topic_count = 1,
                  !.task_queue = queue,
                  !.completed_topics = Append(@, Head(s.task_queue).topic)]

\* decision COMPLETE or PASS with more than one task queued
NextTopic(s) ==
    LET queue == Tail(s.task_queue)
    IN  [s EXCEPT !.current_task_topic = queue[1].topic,
                  !.current_task_instruction = queue[1].instruction,
                  !.current_topic_count = 1,
                  !.task_queue = queue,
                  !.completed_topics = Append(@, Head(s.task_queue).topic)]

\* a plausible variant: PASS skips the topic without recording it
update_task_node_pass_skips(s, d, f) ==
    IF d = "INCOMPLETE" THEN FollowUp(s, f)
    ELSE IF Len(s.task_queue) <= 1 THEN EndInterview(s)
    ELSE IF d = "PASS"
         THEN [NextTopic(s) EXCEPT !.completed_topics = s.completed_topics]
         ELSE NextTopic(s)

\* a plausible variant: the round budget forces the end
update_task_node_hard_stop(s, d, f) ==
    IF s.total_round >= s.max_round THEN EndInterview(s)
    ELSE IF d = "INCOMPLETE" THEN FollowUp(s, f)
    ELSE IF Len(s.task_queue) <= 1 THEN EndInterview(s)
    ELSE NextTopic(s)

update_task_node(s, d, f) ==
    IF d = "INCOMPLETE" THEN FollowUp(s, f)
    ELSE IF Len(s.task_queue) <= 1 THEN EndInterview(s)
    ELSE NextTopic(s)

\* a plausible slip: only the sentinel is tested, not the empty topic
RespondClosesEndOnly(s) == s.current_task_topic = EndTopic

\* a plausible slip: only the empty topic is tested, not the sentinel
RespondClosesEmptyOnly(s) == s.current_task_topic = ""

RespondCloses(s) ==
    s.current_task_topic = "" \/ s.current_task_topic = EndTopic

\* a plausible slip: messages without the add reducer, the reply replaces it
respond_node_replaces(s, text) ==
    IF RespondCloses(s)
    THEN [s EXCEPT !.messages = <<AIMessage(ClosingText)>>]
    ELSE [s EXCEPT !.messages = <<AIMessage(text)>>,
                   !.total_round = @ + 1]

\* a plausible slip: the closing message counts as a round
respond_node_counts_closing(s, text) ==
    IF RespondCloses(s)
    THEN [s EXCEPT !.messages = Append(@, AIMessage(ClosingText)),
                   !.total_round = @ + 1]
    ELSE [s EXCEPT !.messages = Append(@, AIMessage(text)),
                   !.total_round = @ + 1]

respond_node(s, text) ==
    IF RespondCloses(s)
    THEN [s EXCEPT !.messages = Append(@, AIMessage(ClosingText))]
    ELSE [s EXCEPT !.messages = Append(@, AIMessage(text)),
                   !.total_round = @ + 1]

\* a plausible slip: every call supplies the full initial input
ApplyInputResets(prev, isFirst, m) ==
    InterviewState(Append(prev.messages, HumanMessage(m)))

\* the finished flag invoke_graph computes from the graph's result
Finished(s) == s.current_task_topic = EndTopic

\* graph_input of invoke_graph merged into the loaded channel values
ApplyInput(prev, isFirst, m) ==
    IF isFirst
    THEN InterviewState(Append(prev.messages, HumanMessage(m)))
    ELSE [prev EXCEPT !.messages = Append(@, HumanMessage(m))]

\* ---------------------------------------------------------------- actions
\* invoke_graph up to aget_state: get_session_info answers from the cache
\* or fetches the session row, then the thread's state is read
GetState(c, m, lim) ==
    /\ pc[c] = "idle"
    /\ turns < lim
    /\ cache[c] \/ session
    /\ cache' = [cache EXCEPT ![c] = TRUE]
    /\ turns' = turns + 1
    /\ first' = [first EXCEPT ![c] = ~HasState(c)]
    /\ msg' = [msg EXCEPT ![c] = m]
    /\ pc' = [pc EXCEPT ![c] = "got"]
    /\ UNCHANGED <<stored, store, stored2, store2, preStored, pre, st,
                   route, decision, pacing, reply, fails, env>>

\* POST /api/chat/{session_id}/start
StartInterview(c) == \E m \in {StartText} : GetState(c, m, MaxTurns)

\* POST /api/chat/{session_id}
Chat(c) == \E m \in UserMsgs : GetState(c, m, MaxTurns)

\* a plausible alternative: optimistic concurrency, a write that is not based
\* on the stored state is dropped
CommitChecked(c, s) ==
    /\ st' = [st EXCEPT ![c] = s]
    /\ IF HasState(c) /\ Values(c) \notin {pre[c], st[c]}
       THEN UNCHANGED <<store, stored, store2, stored2>>
       ELSE /\ store' = s
            /\ stored' = TRUE
            /\ UNCHANGED <<store2, stored2>>

\* the checkpointer the graph was compiled with writes a checkpoint
Commit(c, s) ==
    /\ st' = [st EXCEPT ![c] = s]
    /\ IF OwnSaver(c)
       THEN /\ store2' = s
            /\ stored2' = TRUE
            /\ UNCHANGED <<store, stored>>
       ELSE /\ store' = s
            /\ stored' = TRUE
            /\ UNCHANGED <<store2, stored2>>

\* graph.ainvoke: load the checkpoint, apply the input, run the router
Invoke(c) ==
    /\ pc[c] = "got"
    /\ first[c] \/ HasState(c)
    /\ LET s == ApplyInput(Values(c), first[c], msg[c])
       IN  /\ Commit(c, s)
           /\ route' = [route EXCEPT ![c] = task_router(s)]
    /\ preStored' = [preStored EXCEPT ![c] = HasState(c)]
    /\ pre' = [pre EXCEPT ![c] = Values(c)]
    /\ pc' = [pc EXCEPT ![c] = "task"]
    /\ UNCHANGED <<first, msg, decision, pacing, reply, turns, fails,
                   cache, env>>

\* graph.ainvoke, first half: the checkpoint is read and the input applied
Load(c) ==
    /\ pc[c] = "got"
    /\ preStored' = [preStored EXCEPT ![c] = HasState(c)]
    /\ pre' = [pre EXCEPT ![c] = Values(c)]
    /\ st' = [st EXCEPT ![c] = ApplyInput(Values(c), first[c], msg[c])]
    /\ pc' = [pc EXCEPT ![c] = "loaded"]
    /\ UNCHANGED <<stored, store, stored2, store2, first, msg, route,
                   decision, pacing, reply, turns, fails, cache, env>>

\* graph.ainvoke, second half: the router runs and the checkpoint is written
Enter(c) ==
    /\ pc[c] = "loaded"
    /\ first[c] \/ preStored[c]
    /\ Commit(c, st[c])
    /\ route' = [route EXCEPT ![c] = task_router(st[c])]
    /\ pc' = [pc EXCEPT ![c] = "task"]
    /\ UNCHANGED <<first, msg, preStored, pre, decision, pacing, reply,
                   turns, fails, cache, env>>

Fail(c) ==
    /\ fails' = fails + 1
    /\ pc' = [pc EXCEPT ![c] = "failed"]
    /\ UNCHANGED <<stored, store, stored2, store2, first, msg, preStored,
                   pre, st, route, pacing, reply, turns, cache, env>>

InitTask(c, plans) ==
    /\ pc[c] = "task"
    /\ route[c] = "init_task"
    /\ \E plan \in plans : Commit(c, init_task_node(st[c], plan))
    /\ pc' = [pc EXCEPT ![c] = "respond"]
    /\ UNCHANGED <<first, msg, preStored, pre, route, decision, pacing,
                   reply, turns, fails, cache, env>>

\* the planning call fails or its output does not validate
InitTaskFails(c) ==
    /\ pc[c] = "task"
    /\ route[c] = "init_task"
    /\ fails < MaxFails
    /\ Fail(c)
    /\ UNCHANGED decision

UpdateTask(c) ==
    /\ pc[c] = "task"
    /\ route[c] = "update_task"
    /\ PromptReady(st[c])
    /\ \E d \in Decisions, f \in FollowUps :
          /\ Concatenable(d, f)
          /\ Commit(c, update_task_node(st[c], d, f))
          /\ decision' = [decision EXCEPT ![c] = d]
    /\ pacing' = [pacing EXCEPT ![c] = Pacing(st[c])]
    /\ pc' = [pc EXCEPT ![c] = "respond"]
    /\ UNCHANGED <<first, msg, preStored, pre, route, reply, turns, fails,
                   cache, env>>

\* the judgment call fails or its output does not validate
UpdateTaskFails(c) ==
    /\ pc[c] = "task"
    /\ route[c] = "update_task"
    /\ fails < MaxFails
    /\ Fail(c)
    /\ UNCHANGED decision

\* the judgment validates but the node raises on it
UpdateTaskRaises(c) ==
    /\ pc[c] = "task"
    /\ route[c] = "update_task"
    /\ fails < MaxFails
    /\ \E d \in Decisions, f \in FollowUps :
          /\ ~PromptReady(st[c]) \/ ~Concatenable(d, f)
          /\ decision' = [decision EXCEPT ![c] = d]
    /\ Fail(c)

\* a plausible variant: a session that was loaded ended skips respond_node
RespondSkipsEnded(c) ==
    /\ pc[c] = "respond"
    /\ IF HasState(c) /\ pre[c].current_task_topic = EndTopic
       THEN UNCHANGED <<st, store, stored, store2, stored2, reply>>
       ELSE /\ \E text \in AiTexts : Commit(c, respond_node(st[c], text))
            /\ reply' = [reply EXCEPT ![c] =
                    IF RespondCloses(st[c]) THEN "closing" ELSE "substantive"]
    /\ pc' = [pc EXCEPT ![c] = "done"]
    /\ UNCHANGED <<first, msg, preStored, pre, route, decision, pacing,
                   turns, fails, cache, env>>

Respond(c) ==
    /\ pc[c] = "respond"
    /\ \E text \in AiTexts : Commit(c, respond_node(st[c], text))
    /\ reply' = [reply EXCEPT ![c] =
                    IF RespondCloses(st[c]) THEN "closing" ELSE "substantive"]
    /\ pc' = [pc EXCEPT ![c] = "done"]
    /\ UNCHANGED <<first, msg, preStored, pre, route, decision, pacing,
                   turns, fails, cache, env>>

\* the utterance call fails; the closing branch makes no call
RespondFails(c) ==
    /\ pc[c] = "respond"
    /\ ~RespondCloses(st[c])
    /\ fails < MaxFails
    /\ Fail(c)
    /\ UNCHANGED decision

\* invoke_graph returns or raises; the request is over
Return(c) ==
    /\ pc[c] \in {"done", "failed"}
    /\ pc' = [pc EXCEPT ![c] = "idle"]
    /\ first' = [first EXCEPT ![c] = FALSE]
    /\ msg' = [msg EXCEPT ![c] = ""]
    /\ preStored' = [preStored EXCEPT ![c] = FALSE]
    /\ pre' = [pre EXCEPT ![c] = NoValues]
    /\ st' = [st EXCEPT ![c] = NoValues]
    /\ route' = [route EXCEPT ![c] = ""]
    /\ decision' = [decision EXCEPT ![c] = ""]
    /\ pacing' = [pacing EXCEPT ![c] = ""]
    /\ reply' = [reply EXCEPT ![c] = ""]
    /\ UNCHANGED <<stored, store, stored2, store2, turns, fails, cache, env>>

\* one client at a time: the client waits for a reply before the next message
Next ==
    \/ StartInterview(1)
    \/ Chat(1)
    \/ Invoke(1)
    \/ InitTask(1, InterviewPlan)
    \/ InitTaskFails(1)
    \/ UpdateTask(1)
    \/ UpdateTaskFails(1)
    \/ UpdateTaskRaises(1)
    \/ Respond(1)
    \/ RespondFails(1)
    \/ Return(1)

Spec == Init /\ [][Next]_vars

\* a long interview: the client starts once and then chats, no call fails
StartOnce(c) == ~stored /\ GetState(c, StartText, MaxLongTurns)

ChatOn(c) == stored /\ \E m \in UserMsgs : GetState(c, m, MaxLongTurns)

NextLong ==
    \/ StartOnce(1)
    \/ ChatOn(1)
    \/ Invoke(1)
    \/ InitTask(1, LongPlans)
    \/ UpdateTask(1)
    \/ Respond(1)
    \/ Return(1)

SpecLong == Init /\ [][NextLong]_vars

\* ------------------------------------------------------ session teardown
\* get_session_info finds neither a cache entry nor the session row: 404
SessionNotFound(c) ==
    /\ pc[c] = "idle"
    /\ turns < MaxTdTurns
    /\ ~cache[c]
    /\ ~session
    /\ turns' = turns + 1
    /\ UNCHANGED <<history, stored, store, stored2, store2, pc, first, msg,
                   preStored, pre, st, route, decision, pacing, reply, fails, cache,
                   saver, database_url, session, td, tds>>

\* delete_session, step 1: the row is deleted; deleting no row is no error
DeleteSessionRow ==
    /\ td = "idle"
    /\ tds < MaxTeardowns
    /\ tds' = tds + 1
    /\ session' = FALSE
    /\ td' = "row"
    /\ UNCHANGED <<history, stored, store, stored2, store2, pc, first, msg,
                   preStored, pre, st, route, decision, pacing, reply, turns, fails,
                   cache, saver, database_url>>

\* delete_thread_checkpoints deletes the thread's rows over its own
\* connection to DATABASE_URL (nothing without it, nothing when the delete
\* fails: the exception is swallowed); the rows are the graph's store only
\* when the graph runs on the Postgres saver
CheckpointsDeleted(ok) == database_url /\ ok /\ saver = "postgres"

\* a plausible variant: a failed checkpoint delete propagates to the caller
DeleteThreadCheckpointsThrows(oks) ==
    /\ td = "row"
    /\ \E ok \in oks :
          /\ IF CheckpointsDeleted(ok)
             THEN stored' = FALSE /\ store' = NoValues
             ELSE UNCHANGED <<stored, store>>
          /\ IF database_url /\ ~ok
             THEN td' = "failed" /\ UNCHANGED cache
             ELSE td' = "done" /\ cache' = [cache EXCEPT ![1] = FALSE]
    /\ UNCHANGED <<history, stored2, store2, pc, first, msg, preStored, pre,
                   st, route, decision, pacing, reply, turns, fails, saver,
                   database_url, session, tds>>

\* delete_session, steps 2 and 3, served by the first process
DeleteThreadCheckpoints(oks) ==
    /\ td = "row"
    /\ \E ok \in oks :
          IF CheckpointsDeleted(ok)
          THEN stored' = FALSE /\ store' = NoValues
          ELSE UNCHANGED <<stored, store>>
    /\ cache' = [cache EXCEPT ![1] = FALSE]
    /\ td' = "done"
    /\ UNCHANGED <<history, stored2, store2, pc, first, msg, preStored, pre,
                   st, route, decision, pacing, reply, turns, fails, saver,
                   database_url, session, tds>>

\* delete_session, step 1, when the sessions table answers with an error
\* status: HTTPException, nothing else is done
DeleteSessionRowFails ==
    /\ td = "idle"
    /\ tds < MaxTeardowns
    /\ tds' = tds + 1
    /\ td' = "failed"
    /\ UNCHANGED <<history, stored, store, stored2, store2, pc, first, msg,
                   preStored, pre, st, route, decision, pacing, reply, turns,
                   fails, cache, saver, database_url, session>>

\* the delete_session request is over
TeardownReturn ==
    /\ td \in {"done", "failed"}
    /\ td' = "idle"
    /\ UNCHANGED <<history, stored, store, stored2, store2, pc, first, msg,
                   preStored, pre, st, route, decision, pacing, reply, turns, fails,
                   cache, saver, database_url, session, tds>>

\* the deployments init_checkpointer can end in: Postgres saver, MemorySaver
\* without DATABASE_URL, MemorySaver after a failed Postgres initialisation
Deployments == {<<"postgres", TRUE>>, <<"memory", FALSE>>, <<"memory", TRUE>>}

InitDeployed(deployments) ==
    /\ stored = FALSE
    /\ store = NoValues
    /\ pc = [c \in Callers |-> "idle"]
    /\ first = [c \in Callers |-> FALSE]
    /\ msg = [c \in Callers |-> ""]
    /\ preStored = [c \in Callers |-> FALSE]
    /\ pre = [c \in Callers |-> NoValues]
    /\ st = [c \in Callers |-> NoValues]
    /\ route = [c \in Callers |-> ""]
    /\ decision = [c \in Callers |-> ""]
    /\ pacing = [c \in Callers |-> ""]
    /\ reply = [c \in Callers |-> ""]
    /\ turns = 0
    /\ fails = 0
    /\ \E d \in deployments : saver = d[1] /\ database_url = d[2]
    /\ stored2 = FALSE
    /\ store2 = NoValues
    /\ session = TRUE
    /\ cache = [c \in Callers |-> FALSE]
    /\ td = "idle"
    /\ tds = 0
    /\ history = <<>>

\* teardown and turns of one client that never overlap
AdvanceQuiet(c) ==
    /\ td = "idle"
    /\ \E m \in {StartText} \cup UserMsgs : GetState(c, m, MaxTdTurns)

NotFoundQuiet(c) == td = "idle" /\ SessionNotFound(c)

TeardownQuiet == pc[1] = "idle" /\ DeleteSessionRow

NextTeardown ==
    \/ AdvanceQuiet(1)
    \/ NotFoundQuiet(1)
    \/ Invoke(1)
    \/ InitTask(1, InterviewPlan)
    \/ UpdateTask(1)
    \/ Respond(1)
    \/ Return(1)
    \/ TeardownQuiet
    \/ DeleteThreadCheckpoints({TRUE})
    \/ TeardownReturn

SpecTeardown == InitDeployed(Deployments) /\ [][NextTeardown]_vars

\* a later call that finds no checkpoint supplies only messages: the router
\* reads total_round, which is missing, and the call fails
EnterRaises(c) ==
    /\ pc[c] = "loaded"
    /\ ~first[c]
    /\ ~preStored[c]
    /\ Fail(c)
    /\ UNCHANGED decision

\* teardown with failing deletes, between the turns of one client
RowFailsQuiet == pc[1] = "idle" /\ DeleteSessionRowFails

NextTeardownFaults ==
    \/ AdvanceQuiet(1)
    \/ NotFoundQuiet(1)
    \/ Invoke(1)
    \/ InitTask(1, InterviewPlan)
    \/ UpdateTask(1)
    \/ Respond(1)
    \/ Return(1)
    \/ TeardownQuiet
    \/ RowFailsQuiet
    \/ DeleteThreadCheckpoints(BOOLEAN)
    \/ TeardownReturn

SpecTeardownFaults == InitDeployed(Deployments) /\ [][NextTeardownFaults]_vars

\* teardown overlapping the turns of one client, on the Postgres saver
AdvanceTd(c) == \E m \in {StartText} \cup UserMsgs : GetState(c, m, MaxTdTurns)

NextTeardownRace ==
    \/ AdvanceTd(1)
    \/ SessionNotFound(1)
    \/ Load(1)
    \/ Enter(1)
    \/ EnterRaises(1)
    \/ InitTask(1, InterviewPlan)
    \/ UpdateTask(1)
    \/ Respond(1)
    \/ Return(1)
    \/ DeleteSessionRow
    \/ DeleteThreadCheckpoints({TRUE})
    \/ TeardownReturn

SpecTeardownRace == InitDeployed({<<"postgres", TRUE>>}) /\ [][NextTeardownRace]_vars

\* two overlapping invoke_graph calls for one session, on the Postgres saver
AdvanceRace(c) ==
    \E m \in {StartText} \cup UserMsgs : GetState(c, m, MaxRaceTurns)

\* the planner's answer here: one two-topic plan
RacePlans == {<<InterviewTask("intro"), InterviewTask("salary")>>}

NextRace ==
    \E c \in Callers :
        \/ AdvanceRace(c)
        \/ Load(c)
        \/ Enter(c)
        \/ InitTask(c, RacePlans)
        \/ UpdateTask(c)
        \/ Respond(c)
        \/ Return(c)

SpecRace == InitDeployed({<<"postgres", TRUE>>}) /\ [][NextRace]_vars

\* one client whose calls follow one another and reach either of two
\* processes, each of which fell back to a MemorySaver of its own
AdvanceProcs(c) ==
    /\ \A d \in Callers : pc[d] = "idle"
    /\ \E m \in {StartText} \cup UserMsgs : GetState(c, m, MaxProcTurns)

NextProcs ==
    \E c \in Callers :
        \/ AdvanceProcs(c)
        \/ Invoke(c)
        \/ InitTask(c, InterviewPlan)
        \/ UpdateTask(c)
        \/ Respond(c)
        \/ Return(c)

SpecProcs ==
    /\ InitDeployed({<<"memory", FALSE>>, <<"memory", TRUE>>})
    /\ [][NextProcs]_vars

\* -------------------------------------------------------- history read
Role(m) == IF m.type = "human" THEN "user" ELSE "assistant"

\* the loop of get_chat_history: every human message "START" is skipped
RECURSIVE Shown(_)
Shown(msgs) ==
    IF msgs = <<>> THEN <<>>
    ELSE IF Head(msgs).type = "human" /\ Head(msgs).content = StartText
         THEN Shown(Tail(msgs))
         ELSE <<[role |-> Role(Head(msgs)), content |-> Head(msgs).content]>>
                  \o Shown(Tail(msgs))

\* a plausible variant: a thread without state is answered with 404
get_chat_history_requires_state(c) ==
    IF ~HasState(c)
    THEN [status |-> 404, messages |-> <<>>, total_round |-> 0]
    ELSE [status |-> 200,
          messages |-> Shown(Values(c).messages),
          total_round |-> Values(c).total_round]

\* GET /api/chat/{session_id}/history, answered by process c
get_chat_history(c) ==
    IF ~HasState(c)
    THEN [status |-> 200, messages |-> <<>>, total_round |-> 0]
    ELSE [status |-> 200,
          messages |-> Shown(Values(c).messages),
          total_round |-> Values(c).total_round]

GetChatHistory(c) ==
    /\ Len(history) < MaxReads
    /\ history' = Append(history, get_chat_history(c))
    /\ UNCHANGED <<stored, store, stored2, store2, pc, first, msg, preStored,
                   pre, st, route, decision, pacing, reply, turns, fails,
                   cache, saver, database_url, session, td, tds>>

\* history reads between the turns and teardowns of one client
HistoryQuiet(c) == td = "idle" /\ pc[c] = "idle" /\ GetChatHistory(c)

NextHistory ==
    \/ AdvanceQuiet(1)
    \/ NotFoundQuiet(1)
    \/ Invoke(1)
    \/ InitTask(1, InterviewPlan)
    \/ UpdateTask(1)
    \/ Respond(1)
    \/ Return(1)
    \/ TeardownQuiet
    \/ DeleteThreadCheckpoints({TRUE})
    \/ TeardownReturn
    \/ HistoryQuiet(1)

SpecHistory == InitDeployed(Deployments) /\ [][NextHistory]_vars

\* an interview that goes on: the client sends START and then answers, no
\* LLM call fails, the plan has at least one topic, and the judgment stops
\* returning INCOMPLETE on a topic after MaxFollowUps looks at it
LiveTurns == 2 * (MaxFollowUps + 1) + 2

StartLive(c) == ~stored /\ GetState(c, StartText, LiveTurns)

ChatLive(c) == stored /\ \E m \in UserMsgs : GetState(c, m, LiveTurns)

UpdateTaskFair(c) ==
    /\ UpdateTask(c)
    /\ decision'[c] = "INCOMPLETE" => st[c].current_topic_count < MaxFollowUps

NextLive ==
    \/ StartLive(1)
    \/ ChatLive(1)
    \/ Invoke(1)
    \/ InitTask(1, LongPlans)
    \/ UpdateTaskFair(1)
    \/ Respond(1)
    \/ Return(1)

SpecLive == Init /\ [][NextLive]_vars /\ WF_vars(NextLive)

\* the pacing policy on its own: prepare_update_prompt applied to a state
\* drawn from a bounded set of round counters, budgets and queues
PaceBudgets == {10, DefaultMaxRound}

PacingInputs ==
    {[InterviewState(<<AIMessage("question"), HumanMessage("hello")>>)
         EXCEPT !.total_round = r,
                !.max_round = b,
                !.task_queue = [i \in 1..n |-> InterviewTask(t)],
                !.current_topic_count = k] :
        r \in 0..MaxPaceRound, b \in PaceBudgets, n \in 0..MaxPaceQueue,
        t \in Topics, k \in {0, 1}}

InitPacing ==
    /\ stored = FALSE
    /\ store = NoValues
    /\ pc = [c \in Callers |-> IF c = 1 THEN "task" ELSE "idle"]
    /\ first = [c \in Callers |-> FALSE]
    /\ msg = [c \in Callers |-> ""]
    /\ preStored = [c \in Callers |-> FALSE]
    /\ pre = [c \in Callers |-> NoValues]
    /\ \E s \in PacingInputs :
          st = [c \in Callers |-> IF c = 1 THEN s ELSE NoValues]
    /\ route = [c \in Callers |-> IF c = 1 THEN "update_task" ELSE ""]
    /\ decision = [c \in Callers |-> ""]
    /\ pacing = [c \in Callers |-> ""]
    /\ reply = [c \in Callers |-> ""]
    /\ turns = 0
    /\ fails = 0
    /\ saver = "postgres"
    /\ database_url = TRUE
    /\ stored2 = FALSE
    /\ store2 = NoValues
    /\ session = TRUE
    /\ cache = [c \in Callers |-> FALSE]
    /\ td = "idle"
    /\ tds = 0
    /\ history = <<>>

PreparePrompt(c) ==
    /\ pc[c] = "task"
    /\ route[c] = "update_task"
    /\ PromptReady(st[c])
    /\ pacing' = [pacing EXCEPT ![c] = Pacing(st[c])]
    /\ pc' = [pc EXCEPT ![c] = "prompted"]
    /\ UNCHANGED <<stored, store, stored2, store2, first, msg, preStored,
                   pre, st, route, decision, reply, turns, fails, cache, env>>

NextPacing == PreparePrompt(1)

SpecPacing == InitPacing /\ [][NextPacing]_vars

\* ------------------------------------------------------------- properties
\* the call of caller c has run its task node on the loaded state pre[c]
Planned(c) == pc[c] \in {"respond", "done"} /\ route[c] = "init_task"
Updated(c) == pc[c] \in {"respond", "done"} /\ route[c] = "update_task"
Advanced(c) == Updated(c) /\ decision[c] \in {"COMPLETE", "PASS"}

\* C1 (as stated): in every TurnState persisted by a completed turn,
\* current_task_topic is "end" exactly when task_queue is empty.
C1_EndIffDrained ==
    \A c \in Callers :
        pc[c] = "done" =>
            (store.current_task_topic = EndTopic <=> store.task_queue = <<>>)

\* C1 (amended): in every persisted TurnState, current_task_topic is "end"
\* only while task_queue still holds exactly its last task, and task_queue
\* is empty only while current_task_topic is "".
C1_EndKeepsLastTask ==
    stored =>
        /\ store.current_task_topic = EndTopic => Len(store.task_queue) = 1
        /\ store.task_queue = <<>> => store.current_task_topic = ""

C1_Witness ==
    /\ pc[1] = "done"
    /\ decision[1] = "COMPLETE"
    /\ stored
    /\ store.current_task_topic = EndTopic
    /\ Len(store.task_queue) = 1

\* C2: in every persisted TurnState whose task_queue is non-empty and whose
\* current_task_topic is not "end", current_task_topic is the topic of the
\* head of task_queue.
C2_TopicIsHead ==
    (stored /\ store.task_queue # <<>> /\ store.current_task_topic # EndTopic)
        => store.current_task_topic = store.task_queue[1].topic

C2_Witness ==
    /\ pc[1] = "done"
    /\ decision[1] = "PASS"
    /\ store.completed_topics = <<"intro">>
    /\ store.task_queue # <<>>
    /\ store.current_task_topic = "salary"

\* C3: a completed turn leaves total_round one above the loaded value when
\* the reply is substantive and equal to it when the reply is the closing
\* message; total_round of the persisted state changes in no other step than
\* the respond step.
C3_RoundCounted ==
    /\ [](\A c \in Callers :
            pc[c] = "done" =>
                st[c].total_round =
                    pre[c].total_round
                        + (IF reply[c] = "substantive" THEN 1 ELSE 0))
    /\ [][store'.total_round # store.total_round =>
            \E c \in Callers : pc[c] = "respond" /\ pc'[c] = "done"]_vars

C3_Witness ==
    /\ pc[1] = "done"
    /\ reply[1] = "closing"
    /\ route[1] = "update_task"
    /\ st[1].total_round = 2
\* C4 (as stated): when a node of the turn fails, the persisted TurnState
\* equals the one persisted before the call (none, if none existed).
C4_FailedTurnLeavesNoTrace ==
    \A c \in Callers :
        pc[c] = "failed" => (stored = preStored[c] /\ store = pre[c])

\* C5 (as stated): COMPLETE or PASS on a queue of exactly one task leaves
\* task_queue empty, current_task_topic "end", completed_topics one entry
\* longer, and the reply is the closing message.
C5_LastTopicDrained ==
    \A c \in Callers :
        (pc[c] = "done" /\ Advanced(c) /\ Len(pre[c].task_queue) = 1) =>
            /\ st[c].task_queue = <<>>
            /\ st[c].current_task_topic = EndTopic
            /\ st[c].completed_topics =
                   Append(pre[c].completed_topics, pre[c].task_queue[1].topic)
            /\ reply[c] = "closing"

\* C5 (amended): COMPLETE or PASS on a queue of exactly one task leaves
\* task_queue and completed_topics as they were (the last task stays queued
\* and is not recorded), sets current_task_topic to "end", the instruction
\* to the end marker and current_topic_count to 1, and the reply of that
\* turn is the closing message, total_round unchanged.
C5_LastTopicEnds ==
    \A c \in Callers :
        (pc[c] = "done" /\ Advanced(c) /\ Len(pre[c].task_queue) = 1) =>
            /\ st[c].task_queue = pre[c].task_queue
            /\ st[c].completed_topics = pre[c].completed_topics
            /\ st[c].current_task_topic = EndTopic
            /\ st[c].current_task_instruction = EndInstruction
            /\ st[c].current_topic_count = 1
            /\ reply[c] = "closing"
            /\ st[c].messages[Len(st[c].messages)] = AIMessage(ClosingText)
            /\ st[c].total_round = pre[c].total_round

C5_Witness ==
    /\ pc[1] = "done"
    /\ decision[1] = "PASS"
    /\ pre[1].current_task_topic = "salary"
    /\ Len(pre[1].task_queue) = 1
    /\ reply[1] = "closing"

\* C6: COMPLETE or PASS on a queue of more than one task removes the head,
\* appends its topic to completed_topics, makes the new head the current
\* topic and instruction and sets current_topic_count to 1; PASS and
\* COMPLETE yield the same state.
C6_AdvancePopsHead ==
    \A c \in Callers :
        /\ (Advanced(c) /\ Len(pre[c].task_queue) > 1) =>
              /\ st[c].task_queue = Tail(pre[c].task_queue)
              /\ st[c].completed_topics =
                     Append(pre[c].completed_topics, pre[c].task_queue[1].topic)
              /\ st[c].current_task_topic = pre[c].task_queue[2].topic
              /\ st[c].current_task_instruction =
                     pre[c].task_queue[2].instruction
              /\ st[c].current_topic_count = 1
        /\ (pc[c] = "task" /\ route[c] = "update_task") =>
              \A f, g \in FollowUps :
                  update_task_node(st[c], "PASS", f)
                      = update_task_node(st[c], "COMPLETE", g)

C6_Witness ==
    /\ pc[1] = "respond"
    /\ decision[1] = "PASS"
    /\ Len(pre[1].task_queue) = 2
    /\ pre[1].current_topic_count = 2
    /\ st[1].completed_topics = <<"salary">>

\* C7: an INCOMPLETE decision appends a line break and the follow-up text
\* to the instruction, adds 1 to current_topic_count and leaves
\* current_task_topic, task_queue and completed_topics unchanged.
C7_IncompleteAppends ==
    \A c \in Callers :
        (Updated(c) /\ decision[c] = "INCOMPLETE") =>
            /\ \E f \in FollowUps \ {NoText} :
                   st[c].current_task_instruction =
                       pre[c].current_task_instruction \o <<"\n", f>>
            /\ st[c].current_topic_count = pre[c].current_topic_count + 1
            /\ st[c].current_task_topic = pre[c].current_task_topic
            /\ st[c].task_queue = pre[c].task_queue
            /\ st[c].completed_topics = pre[c].completed_topics

C7_Witness ==
    /\ pc[1] = "respond"
    /\ decision[1] = "INCOMPLETE"
    /\ pre[1].current_topic_count = 1
    /\ st[1].current_task_instruction =
           <<"ask", "intro", "\n", "dig deeper", "\n", "dig deeper">>

\* C8: a planning turn that returns the empty plan ends with task_queue
\* empty and current_task_topic "", its reply is the closing message and
\* total_round is still 0.
C8_EmptyPlanCloses ==
    \A c \in Callers :
        (pc[c] = "done" /\ Planned(c) /\ st[c].task_queue = <<>>) =>
            /\ st[c].current_task_topic = ""
            /\ reply[c] = "closing"
            /\ st[c].messages[Len(st[c].messages)] = AIMessage(ClosingText)
            /\ st[c].total_round = 0

C8_Witness ==
    /\ pc[1] = "done"
    /\ route[1] = "init_task"
    /\ st[1].task_queue = <<>>
    /\ reply[1] = "closing"

\* C9 (as stated): the router chooses planning exactly when no TurnState
\* existed or the loaded one has total_round 0 and an empty task_queue.
C9_PlanningOnlyWithoutPlan ==
    \A c \in Callers :
        pc[c] = "task" =>
            (route[c] = "init_task" <=>
                (~preStored[c]
                    \/ (pre[c].total_round = 0 /\ pre[c].task_queue = <<>>)))

\* C10: an INCOMPLETE decision on a live topic keeps the topic, gets a
\* substantive reply and adds 1 to total_round whatever total_round is;
\* current_task_topic turns to "end" only in an update step with decision
\* COMPLETE or PASS on a queue of at most one task; the update step, which
\* computes the pacing directive, leaves messages, total_round and
\* max_round as the router saw them.
C10_NoHardStop ==
    /\ [](\A c \in Callers :
            /\ (pc[c] = "done" /\ Updated(c) /\ decision[c] = "INCOMPLETE"
                    /\ ~RespondCloses(pre[c])) =>
                  /\ st[c].current_task_topic = pre[c].current_task_topic
                  /\ reply[c] = "substantive"
                  /\ st[c].total_round = pre[c].total_round + 1
            /\ (pc[c] = "respond" /\ Updated(c)) =>
                  /\ pacing[c] = Pacing(pre[c])
                  /\ st[c].messages =
                         Append(pre[c].messages, HumanMessage(msg[c]))
                  /\ st[c].total_round = pre[c].total_round
                  /\ st[c].max_round = pre[c].max_round)
    /\ [][(store.current_task_topic # EndTopic
             /\ store'.current_task_topic = EndTopic) =>
            \E c \in Callers :
                /\ pc[c] = "task"
                /\ route[c] = "update_task"
                /\ decision'[c] \in {"COMPLETE", "PASS"}
                /\ Len(st[c].task_queue) <= 1]_vars

C10_Witness ==
    /\ pc[1] = "done"
    /\ decision[1] = "INCOMPLETE"
    /\ pacing[1] = "time pressure"
    /\ pre[1].total_round >= pre[1].max_round
    /\ reply[1] = "substantive"
    /\ st[1].total_round > st[1].max_round
\* C11: the directive depends only on total_round, max_round and the length
\* of task_queue: time pressure when max_round - total_round <= 3, else
\* backlog pressure when len(task_queue) - 1 > max_round - total_round,
\* else standard pacing; (18, 20, 3) gives time pressure, (5, 20, 10) and
\* (0, 20, 8) give standard pacing.
C11_PacingDirective ==
    \A c \in Callers :
        pc[c] = "prompted" =>
            LET r == st[c].total_round
                m == st[c].max_round
                n == Len(st[c].task_queue)
            IN  /\ pacing[c] =
                       IF m - r <= 3 THEN "time pressure"
                       ELSE IF n - 1 > m - r THEN "backlog pressure"
                       ELSE "standard pacing"
                /\ (r = 18 /\ m = 20 /\ n = 3) => pacing[c] = "time pressure"
                /\ (r = 5 /\ m = 20 /\ n = 10) => pacing[c] = "standard pacing"
                /\ (r = 0 /\ m = 20 /\ n = 8) => pacing[c] = "standard pacing"

C11_Witness ==
    /\ pc[1] = "prompted"
    /\ st[1].total_round = 15
    /\ st[1].max_round = 20
    /\ Len(st[1].task_queue) = 7
    /\ pacing[1] = "backlog pressure"
QueueSum(s) == Len(s.completed_topics) + Len(s.task_queue)

\* C12 (as stated): a turn that loads a TurnState holding a plan leaves
\* len(completed_topics) + len(task_queue) no greater than it loaded it.
C12_TopicsOnlyConsumed ==
    \A c \in Callers :
        (pc[c] \in {"respond", "done"} /\ preStored[c]
             /\ pre[c].task_queue # <<>>) =>
            QueueSum(st[c]) <= QueueSum(pre[c])

\* C13 (as stated): planning runs only in a session in which no planning
\* step has completed: the loaded TurnState holds no plan and no
\* interviewer message of an earlier, completed turn.
C13_PlannedOnce ==
    \A c \in Callers :
        (pc[c] = "task" /\ route[c] = "init_task") =>
            /\ pre[c].task_queue = <<>>
            /\ \A i \in 1..Len(pre[c].messages) :
                   pre[c].messages[i].type # "ai"
\* C14 (as stated): a call that loaded a TurnState whose current_task_topic
\* is "end" appends the user message only; no interviewer message follows.
C14_EndedSkipsRespond ==
    \A c \in Callers :
        (pc[c] = "done" /\ preStored[c]
             /\ pre[c].current_task_topic = EndTopic) =>
            st[c].messages = Append(pre[c].messages, HumanMessage(msg[c]))

\* C14 (amended): a further call on a session that was loaded ended still
\* runs the update and respond steps: when it completes, messages has gained
\* the user message followed by the closing message, current_task_topic is
\* still "end" and total_round is unchanged.
C14_EndedStillResponds ==
    \A c \in Callers :
        (pc[c] = "done" /\ preStored[c] /\ ~first[c]
             /\ pre[c].current_task_topic = EndTopic) =>
            /\ route[c] = "update_task"
            /\ reply[c] = "closing"
            /\ st[c].messages =
                   pre[c].messages
                       \o <<HumanMessage(msg[c]), AIMessage(ClosingText)>>
            /\ st[c].current_task_topic = EndTopic
            /\ st[c].total_round = pre[c].total_round

C14_Witness ==
    /\ pc[1] = "done"
    /\ preStored[1]
    /\ pre[1].current_task_topic = EndTopic
    /\ decision[1] = "INCOMPLETE"
    /\ reply[1] = "closing"
\* C15 (as stated): once delete_session has returned success, the store the
\* graph uses holds no TurnState of the session and the cache entry is gone,
\* after the first and after a repeated teardown.
C15_TeardownRemovesState ==
    td = "done" => (~stored /\ ~cache[1])
\* C16 (as stated): when a teardown and the advance it overlapped have both
\* finished, the store holds no TurnState of the session.
C16_TeardownWinsRace ==
    (tds > 0 /\ td \in {"done", "idle"} /\ pc[1] \in {"idle", "done", "failed"})
        => ~stored
\* both calls are over and had loaded the same stored state
SameLoad ==
    /\ pc[1] = "done" /\ pc[2] = "done"
    /\ preStored[1] /\ preStored[2]
    /\ pre[1] = pre[2]

\* C17: overlapping advance calls are not serialized.  The save that ends a
\* call overwrites the stored state with that call's own values whatever was
\* stored meanwhile, so when two calls that loaded the same state are both
\* over, the stored state is the state of one of them alone: two entries
\* more than the loaded messages and at most one more round, where either
\* serial order gives four entries.
C17_LastSaveWins ==
    /\ [](SameLoad =>
            /\ store \in {st[1], st[2]}
            /\ Len(store.messages) = Len(pre[1].messages) + 2
            /\ store.total_round <= pre[1].total_round + 1)
    /\ [][\A c \in Callers :
            (pc[c] = "respond" /\ pc'[c] = "done") => store' = st'[c]]_vars

\* two calls loaded the same state and each got a reply from the model, yet
\* one round was counted and one exchange is stored
C17_Witness ==
    /\ SameLoad
    /\ reply[1] = "substantive" /\ reply[2] = "substantive"
    /\ store.total_round = pre[1].total_round + 1
    /\ Len(store.messages) = Len(pre[1].messages) + 2
\* C18: the state a turn starts from is, field by field, the state the
\* previous completed turn saved.  What a completed turn leaves in the store
\* is its final state; the store is written by no step other than the graph
\* steps of a call; a call takes the stored state as it is, is a first call
\* only when nothing is stored, and a later call adds its message and
\* changes no other field.
C18_LoadReturnsSaved ==
    /\ [](\A c \in Callers : pc[c] = "done" => (stored /\ store = st[c]))
    /\ [][\A c \in Callers :
            /\ (pc[c] \in {"idle", "done", "failed"} /\ pc'[c] # pc[c]) =>
                  (store' = store /\ stored' = stored)
            /\ (pc[c] = "idle" /\ pc'[c] = "got") => first'[c] = ~stored
            /\ (pc[c] = "got" /\ pc'[c] = "task") =>
                  /\ preStored'[c] = stored
                  /\ pre'[c] = store
                  /\ ~first[c] =>
                        st'[c] = [store EXCEPT
                                    !.messages = Append(@, HumanMessage(msg[c]))]]_vars

C18_Witness ==
    /\ pc[1] = "task"
    /\ ~first[1]
    /\ preStored[1]
    /\ pre[1].total_round = 2
    /\ pre[1].completed_topics = <<"intro">>
    /\ pre[1].current_topic_count = 2
    /\ st[1] = [pre[1] EXCEPT !.messages = Append(@, HumanMessage("hello"))]
\* C19 (as stated): with the in-memory fallback and two processes, a call is
\* treated as the first call of a session (full initial input, total_round 0,
\* planning) only when no process holds a TurnState of the session.
C19_NoSilentRestart ==
    \A c \in Callers :
        (saver = "memory" /\ pc[c] = "got" /\ first[c]) =>
            (~stored /\ ~stored2)
IsPrefix(a, b) == Len(a) <= Len(b) /\ SubSeq(b, 1, Len(a)) = a

\* C20: messages is append-only.  Every step leaves the stored messages a
\* prefix of the new stored messages, and a completed turn has appended to
\* the loaded messages exactly the received user message followed by one
\* interviewer message, a reply of the model or the closing message.
C20_MessagesAppendOnly ==
    /\ [](\A c \in Callers :
            pc[c] = "done" =>
                /\ \E t \in AiTexts \cup {ClosingText} :
                       st[c].messages =
                           pre[c].messages \o <<HumanMessage(msg[c]), AIMessage(t)>>
                /\ store.messages = st[c].messages)
    /\ [][IsPrefix(store.messages, store'.messages)]_vars

C20_Witness ==
    /\ pc[1] = "done"
    /\ Len(pre[1].messages) = 4
    /\ st[1].messages =
           pre[1].messages \o <<HumanMessage("hello"), AIMessage("question")>>
    /\ store.messages = st[1].messages
\* C21: max_round is 20 from the first stored TurnState on: every stored
\* state and every state a running call holds after its input was applied
\* has max_round 20, and no step changes the stored value.
C21_MaxRoundFixed ==
    /\ [](/\ stored => store.max_round = DefaultMaxRound
          /\ \A c \in Callers :
                pc[c] \in {"task", "respond", "done"} =>
                    st[c].max_round = DefaultMaxRound)
    /\ [][stored => store'.max_round = store.max_round]_vars

C21_Witness ==
    /\ pc[1] = "done"
    /\ route[1] = "update_task"
    /\ decision[1] = "PASS"
    /\ pre[1].total_round = 2
    /\ pre[1].max_round = DefaultMaxRound
    /\ st[1].completed_topics # <<>>
    /\ store.max_round = DefaultMaxRound
\* a history read has just been answered
HistoryRead == Len(history') = Len(history) + 1

\* the messages with their roles, without a leading start trigger
AllButLeadingTrigger(msgs) ==
    LET rest == IF msgs # <<>> /\ Head(msgs) = HumanMessage(StartText)
                THEN Tail(msgs) ELSE msgs
    IN  [i \in 1..Len(rest) |->
            [role |-> Role(rest[i]), content |-> rest[i].content]]

\* C22 (as stated): a history read returns, in stored order and with their
\* roles, all stored messages except a leading start trigger, and the stored
\* total_round.
C22_HistoryOmitsLeadingTrigger ==
    [][(HistoryRead /\ stored) =>
          /\ history'[Len(history')].messages =
                 AllButLeadingTrigger(store.messages)
          /\ history'[Len(history')].total_round = store.total_round]_vars

\* C23: a history read of a thread without TurnState is answered with the
\* empty default result and no error, and leaves the thread without state.
C23_HistoryOfNothing ==
    [][(HistoryRead /\ ~stored) =>
          /\ history'[Len(history')] =
                 [status |-> 200, messages |-> <<>>, total_round |-> 0]
          /\ ~stored'
          /\ store' = store]_vars

\* a read that showed the interview, then a read after the teardown that
\* removed its state
C23_Witness ==
    /\ Len(history) = 2
    /\ history[1].messages # <<>>
    /\ history[2] = [status |-> 200, messages |-> <<>>, total_round |-> 0]
    /\ tds > 0
    /\ ~stored
\* C24: a failing checkpoint delete is not thrown.  Once the session row is
\* deleted, teardown goes on to evict the cache entry and report success
\* whether or not the checkpoints were deleted or a database is configured;
\* teardown fails only in its first step, the delete of the session row, and
\* then nothing has been changed.
C24_CheckpointFailureSwallowed ==
    [][/\ td = "row" => (td' = "done" /\ ~cache'[1] /\ ~session')
       /\ td' = "failed" =>
             /\ td \in {"idle", "failed"}
             /\ session' = session
             /\ cache' = cache
             /\ stored' = stored
             /\ store' = store]_vars

\* teardown on the Postgres saver reported success although the delete of
\* the checkpoints failed
C24_Witness ==
    /\ td = "done"
    /\ saver = "postgres"
    /\ database_url
    /\ stored
    /\ store.total_round > 0
    /\ ~cache[1]
    /\ ~session
\* the completed topics followed by the topics still queued
PlanOrder(s) ==
    s.completed_topics
        \o [i \in 1..Len(s.task_queue) |-> s.task_queue[i].topic]

\* C25: completed_topics followed by the topics of task_queue is the planned
\* topic sequence.  A planning step leaves it equal to the topics of the plan
\* just produced, with nothing completed; an update step, whatever the
\* decision and including the terminal transition, and a respond step leave
\* it as it was; the stored sequence changes in no step but a planning step.
C25_PlanOrderKept ==
    [][/\ \A c \in Callers :
             /\ (pc[c] = "task" /\ route[c] = "init_task"
                     /\ pc'[c] = "respond") =>
                   /\ st'[c].completed_topics = <<>>
                   /\ st'[c].task_queue \in InterviewPlan
                   /\ store' = st'[c]
             /\ (pc[c] = "task" /\ route[c] = "update_task"
                     /\ pc'[c] = "respond") =>
                   PlanOrder(st'[c]) = PlanOrder(st[c])
             /\ (pc[c] = "respond" /\ pc'[c] = "done") =>
                   PlanOrder(st'[c]) = PlanOrder(st[c])
       /\ PlanOrder(store') # PlanOrder(store) =>
             \E c \in Callers :
                 pc[c] = "task" /\ route[c] = "init_task"]_vars

C25_Witness ==
    /\ pc[1] = "done"
    /\ decision[1] = "COMPLETE"
    /\ store.current_task_topic = EndTopic
    /\ store.completed_topics = <<"salary">>
    /\ PlanOrder(store) = <<"salary", "intro">>
\* C26 (as stated): the finished flag returned for a completed turn is true
\* exactly when the reply of the turn is the closing message.
C26_FinishedIffClosing ==
    \A c \in Callers :
        pc[c] = "done" => (Finished(st[c]) <=> reply[c] = "closing")
\* C27: ENDED is absorbing.  No step changes a stored current_task_topic
\* "end" or the total_round, task_queue and completed_topics stored with it,
\* and a turn that loaded "end" ends, whatever the decision, with the
\* closing message as its reply.
C27_EndedAbsorbing ==
    /\ [][(stored /\ store.current_task_topic = EndTopic) =>
            /\ stored'
            /\ store'.current_task_topic = EndTopic
            /\ store'.total_round = store.total_round
            /\ store'.task_queue = store.task_queue
            /\ store'.completed_topics = store.completed_topics]_vars
    /\ [](\A c \in Callers :
            (pc[c] = "done" /\ preStored[c]
                 /\ pre[c].current_task_topic = EndTopic) =>
                /\ decision[c] \in Decisions
                /\ reply[c] = "closing"
                /\ st[c].messages[Len(st[c].messages)] = AIMessage(ClosingText))

C27_Witness ==
    /\ pc[1] = "done"
    /\ preStored[1]
    /\ pre[1].current_task_topic = EndTopic
    /\ decision[1] = "INCOMPLETE"
    /\ reply[1] = "closing"
    /\ st[1].current_task_topic = EndTopic
    /\ st[1].current_topic_count = 2
\* C28 (as stated): whenever the judgment of an update step is one of
\* COMPLETE, INCOMPLETE, PASS, with a follow-up text or null, the step
\* completes and yields the next TurnState.
C28_UpdateNeverRaises ==
    [][\A c \in Callers :
          (pc[c] = "task" /\ route[c] = "update_task"
               /\ decision'[c] \in Decisions) =>
              pc'[c] = "respond"]_vars
\* C29: with a plan of n >= 1 topics, no failing call and a judgment that
\* does not return INCOMPLETE forever on a topic, the session reaches
\* current_task_topic "end"; it does so in the step of the n-th COMPLETE or
\* PASS decision, each earlier one having completed one topic; an INCOMPLETE
\* decision never ends the session.
C29_EndsAtNthAdvance ==
    /\ <>(stored /\ store.current_task_topic = EndTopic)
    /\ [][\A c \in Callers :
            (pc[c] = "task" /\ route[c] = "update_task"
                 /\ pc'[c] = "respond"
                 /\ st[c].current_task_topic # EndTopic) =>
                LET n == Len(PlanOrder(st[c]))
                    done == Len(st[c].completed_topics)
                IN  /\ n >= 1
                    /\ decision'[c] = "INCOMPLETE" =>
                          /\ st'[c].current_task_topic # EndTopic
                          /\ Len(st'[c].completed_topics) = done
                    /\ decision'[c] \in {"COMPLETE", "PASS"} =>
                          /\ (st'[c].current_task_topic = EndTopic)
                                 <=> (done + 1 = n)
                          /\ st'[c].current_task_topic # EndTopic =>
                                 Len(st'[c].completed_topics) = done + 1]_vars

C29_Witness ==
    /\ pc[1] = "done"
    /\ decision[1] = "COMPLETE"
    /\ pre[1].current_task_topic = "salary"
    /\ pre[1].current_topic_count = MaxFollowUps
    /\ pre[1].completed_topics = <<"intro">>
    /\ st[1].current_task_topic = EndTopic
    /\ reply[1] = "closing"
\* C30 (as stated): when an update step is about to run, messages has at
\* least two entries, the last is the user message of this call and the one
\* before it is a message of the interviewer.
C30_PromptSeesLastExchange ==
    \A c \in Callers :
        (pc[c] = "task" /\ route[c] = "update_task") =>
            LET n == Len(st[c].messages)
            IN  /\ n >= 2
                /\ st[c].messages[n] = HumanMessage(msg[c])
                /\ st[c].messages[n - 1].type = "ai"
====
